---- MODULE Spec2Model ----
(***************************************************************************)
(* Model of get_pointing_table.py: the range partitioner                   *)
(* (_build_time_ranges), the chunk fetcher (_query_range) and the two      *)
(* execution strategies of get_and_save_pointing_table.                    *)
(*                                                                         *)
(* A timestamp is a calendar day, encoded as  month * DaySlots + day  with *)
(* month counted from January of EpochYear and day the day of the month,   *)
(* so that the integer order is the chronological order. The time of day,  *)
(* which DateOffset(months=...) carries over unchanged, is left out.       *)
(***************************************************************************)
EXTENDS Integers, Sequences, FiniteSets

\* ------------------------------------------------------------------ bounds
MaxSpanMonths == 26      \* end_date lies at most this many months after start_date
MinChunk == 0 - 1        \* smallest months_per_chunk tried by the partitioner runs
MaxChunk == 13           \* largest months_per_chunk tried by the partitioner runs
MaxRanges == 40          \* cap on len(ranges) for the loops that never end
MaxNowMonths == 3        \* "now" lies at most this many months after StartDate
MaxRunChunk == 2         \* largest months_per_chunk tried by the full runs
MaxWorkers == 4          \* largest workers argument tried

\* ------------------------------------------------------------- calendar
EpochYear == 2010
DaySlots == 32
StartMonth == 4          \* May 2010, month 0 being January of EpochYear
StartDay == 13

MkTs(mi, d) == mi * DaySlots + d
MonthOf(t) == t \div DaySlots
DayOf(t) == t % DaySlots

IsLeap(y) == (y % 4 = 0 /\ y % 100 # 0) \/ y % 400 = 0

DaysInMonth(mi) ==
    LET y == EpochYear + (mi \div 12)
        m == mi % 12
    IN  IF m = 1 THEN (IF IsLeap(y) THEN 29 ELSE 28)
        ELSE IF m \in {3, 5, 8, 10} THEN 30
        ELSE 31

Min(a, b) == IF a <= b THEN a ELSE b

\* cur + pd.DateOffset(months=m): calendar months are added and the day of the
\* month is clipped to the length of the month arrived at.
AddMonthsNoClip(t, m) == t + m * DaySlots

AddMonths(t, m) ==
    LET mi == MonthOf(t) + m
    IN  MkTs(mi, Min(DayOf(t), DaysInMonth(mi)))

\* pd.Timestamp("2010-05-13T00:00:00Z")
StartDate == MkTs(StartMonth, StartDay)

\* ------------------------------------------------------------- inputs
Days == {1, 13, 28, 29, 30, 31}
StartMonths == {0, StartMonth, 25}      \* Jan 2010, May 2010, Feb 2012 (leap)

Dates(months) == {MkTs(mi, d) : mi \in months, d \in Days} \cap
                 UNION {{MkTs(mi, d) : d \in 1..DaysInMonth(mi)} : mi \in months}

VARIABLES
    start_date, end_date, months_per_chunk,   \* arguments of _build_time_ranges
    cur, ranges,                              \* its locals
    pc,                                       \* position in the program
    time_ranges,                              \* the list returned (line 58)
    workers,                                  \* argument of get_and_save_pointing_table
    file,                                     \* the file at save_path
    opened,                                   \* save_path.open("w") has been executed
    wrote_header,
    k, df,                                    \* sequential loop: window index, its table
    queries,                                  \* the remote queries issued so far, in order
    replies,                                  \* how the archive answered each window's query
    fut,                                      \* the futures, by submission number
    results,                                  \* the slot array (line 75)
    j,                                        \* write loop index (line 84)
    skips,                                    \* times the branch of line 86 was taken
    exc,                                      \* exception in flight out of the with block
    err                                       \* exception raised to the caller

bvars == <<start_date, end_date, months_per_chunk, cur, ranges, time_ranges>>
run_vars == <<workers, file, opened, wrote_header, k, df, queries, replies, fut, results,
              j, skips, exc, err>>
vars == <<start_date, end_date, months_per_chunk, cur, ranges, pc, time_ranges,
          workers, file, opened, wrote_header, k, df, queries, replies, fut, results,
          j, skips, exc, err>>

\* ------------------------------------------------- tables, files, errors
Header == [kind |-> "header", win |-> 0, t |-> 0]
Row(i, t) == [kind |-> "row", win |-> i, t |-> t]
StaleLine == [kind |-> "stale", win |-> 0, t |-> 0]
None == <<[kind |-> "None", win |-> 0, t |-> 0]>>

\* What the archive may hold for window i: nothing, or two records that it
\* returns out of T_START order.
Tables(i) == {<<>>, <<Row(i, 2), Row(i, 1)>>}
RemoteErrors == {"ConnectionError", "ValueError"}

NoExc == [type |-> "none", msg |-> "", win |-> 0]
NoErr == [type |-> "none", cause |-> NoExc]
\* lines 33-34 and 69-70
EmptyResult(i) == [type |-> "ValueError", msg |-> "No data returned", win |-> i]
\* what client.query raises by itself (lines 31 and 67)
Retrieval(ty, i) == [type |-> ty, msg |-> "remote", win |-> i]

\* The outcomes of client.query for window i.
Outcomes(i) ==
    {[tab |-> tb, exc |-> NoExc] : tb \in Tables(i)} \cup
    {[tab |-> <<>>, exc |-> Retrieval(ty, i)] : ty \in RemoteErrors}

Kind(o) == IF o.exc # NoExc THEN "raised" ELSE IF o.tab = <<>> THEN "empty" ELSE "rows"

\* lines 89-91
WrapNoCause(e) == [type |-> "OSError", cause |-> NoExc]

Wrap(e) == [type |-> "OSError", cause |-> e]

\* df.sort_values("T_START"), lines 35 and 71
RECURSIVE Insert(_, _)
Insert(r, s) ==
    IF s = <<>> THEN <<r>>
    ELSE IF r.t < Head(s).t THEN <<r>> \o s
    ELSE <<Head(s)>> \o Insert(r, Tail(s))

RECURSIVE SortValues(_)
SortValues(d) == IF d = <<>> THEN <<>> ELSE Insert(Head(d), SortValues(Tail(d)))

\* df.to_csv(f, index=False, header=h), lines 72 and 87
ToCsvAlwaysHeader(d, h) == <<Header>> \o d

ToCsv(d, h) == (IF h THEN <<Header>> ELSE <<>>) \o d

InitialFiles == {[exists |-> FALSE, lines |-> <<>>],
                 [exists |-> TRUE, lines |-> <<StaleLine>>]}
\* save_path.open("w"), lines 64 and 83
OpenA == [exists |-> TRUE, lines |-> file.lines]

OpenW == [exists |-> TRUE, lines |-> <<>>]

RunIdle(w, f0) ==
    /\ workers = w
    /\ file = f0
    /\ opened = FALSE
    /\ wrote_header = FALSE
    /\ k = 1
    /\ df = <<>>
    /\ queries = <<>>
    /\ replies = <<>>
    /\ fut = <<>>
    /\ results = <<>>
    /\ j = 1
    /\ skips = 0
    /\ exc = NoExc
    /\ err = NoErr

\* ------------------------------------------------- _build_time_ranges
\* lines 19-20
BuildEntry(s, e, m) ==
    /\ start_date = s
    /\ end_date = e
    /\ months_per_chunk = m
    /\ ranges = <<>>
    /\ cur = s
    /\ pc = "build"
    /\ time_ranges = <<>>

\* line 22
NxtNoMin(c) == AddMonths(c, months_per_chunk)
NxtNoClip(c) == Min(AddMonthsNoClip(c, months_per_chunk), end_date)

Nxt(c) == Min(AddMonths(c, months_per_chunk), end_date)

\* lines 21-24, one iteration of the while loop
BuildLoop ==
    /\ pc = "build"
    /\ cur < end_date
    /\ Len(ranges) < MaxRanges
    /\ ranges' = Append(ranges, <<cur, Nxt(cur)>>)
    /\ cur' = Nxt(cur)
    /\ UNCHANGED <<start_date, end_date, months_per_chunk, pc, time_ranges>>
    /\ UNCHANGED run_vars

\* lines 21 and 25, the loop condition fails and the list is returned
BuildReturn ==
    /\ pc = "build"
    /\ ~(cur < end_date)
    /\ time_ranges' = ranges
    /\ pc' = "built"
    /\ UNCHANGED <<start_date, end_date, months_per_chunk, cur, ranges>>
    /\ UNCHANGED run_vars

\* The partitioner alone, on every start, end and chunk size of the bounds.
InitRanges ==
    \E s \in Dates(StartMonths) :
      \E e \in Dates(MonthOf(s)..(MonthOf(s) + MaxSpanMonths)) :
        \E m \in MinChunk..MaxChunk :
          BuildEntry(s, e, m) /\ RunIdle(1, [exists |-> FALSE, lines |-> <<>>])

NextRanges == BuildLoop \/ BuildReturn

SpecRanges == InitRanges /\ [][NextRanges]_vars

\* ------------------------------------------------- get_and_save_pointing_table
NWin == Len(time_ranges)

\* lines 62-64: workers <= 1, the client is made and the file opened for writing
SeqOpen ==
    /\ pc = "built"
    /\ workers <= 1
    /\ file' = OpenW
    /\ opened' = TRUE
    /\ k' = 1
    /\ replies' = [i \in 1..NWin |-> "none"]
    /\ pc' = "seq_query"
    /\ UNCHANGED <<bvars, workers, wrote_header, df, queries, fut, results, j, skips,
                   exc, err>>

\* lines 65-67: the query of window k is issued; it raises or returns a table
SeqQuery ==
    /\ pc = "seq_query"
    /\ k <= NWin
    /\ queries' = Append(queries, k)
    /\ \E o \in Outcomes(k) :
         /\ replies' = [replies EXCEPT ![k] = Kind(o)]
         /\ IF o.exc # NoExc
            THEN /\ exc' = o.exc
                 /\ pc' = "except"
                 /\ df' = df
            ELSE /\ df' = o.tab
                 /\ pc' = "seq_check"
                 /\ exc' = exc
    /\ UNCHANGED <<bvars, workers, file, opened, wrote_header, k, fut, results, j,
                   skips, err>>

\* lines 68-70: an empty table raises ValueError
SeqCheck ==
    /\ pc = "seq_check"
    /\ IF df = <<>>
       THEN /\ exc' = EmptyResult(k)
            /\ pc' = "except"
       ELSE /\ exc' = exc
            /\ pc' = "seq_write"
    /\ UNCHANGED <<bvars, workers, file, opened, wrote_header, k, df, queries, replies,
                   fut, results, j, skips, err>>

\* lines 71-73: sort, append to the file, header only if none was written
SeqWrite ==
    /\ pc = "seq_write"
    /\ df' = SortValues(df)
    /\ file' = [file EXCEPT !.lines = @ \o ToCsv(SortValues(df), ~wrote_header)]
    /\ wrote_header' = TRUE
    /\ k' = k + 1
    /\ pc' = "seq_query"
    /\ UNCHANGED <<bvars, workers, opened, queries, replies, fut, results, j, skips,
                   exc, err>>

\* line 65 exhausted: the with block closes the file and the call returns
SeqReturn ==
    /\ pc = "seq_query"
    /\ k > NWin
    /\ pc' = "returned"
    /\ UNCHANGED <<bvars, run_vars>>

\* lines 89-91: the exception that left the try block is wrapped and raised
Handler ==
    /\ pc = "except"
    /\ err' = Wrap(exc)
    /\ pc' = "raised"
    /\ UNCHANGED <<bvars, workers, file, opened, wrote_header, k, df, queries, replies,
                   fut, results, j, skips, exc>>

\* fut_to_idx (lines 77-79): the f-th future submitted maps to index f
FutToIdxByArrival(f) == 1 + Cardinality({g \in DOMAIN fut : fut[g].st = "collected"})

FutToIdx(f) == f

Queued == [st |-> "queued", res |-> <<>>, exc |-> NoExc]

\* lines 75-79: the slot array is made and every window's query is submitted
ParSubmit ==
    /\ pc = "built"
    /\ workers > 1
    /\ results' = [i \in 1..NWin |-> None]
    /\ fut' = [f \in 1..NWin |-> Queued]
    /\ replies' = [i \in 1..NWin |-> "none"]
    /\ pc' = "collect"
    /\ UNCHANGED <<bvars, workers, file, opened, wrote_header, k, df, queries, j,
                   skips, exc, err>>

Running == {f \in DOMAIN fut : fut[f].st = "running"}
Finished == {f \in DOMAIN fut : fut[f].st \in {"done", "collected"}}

\* A pool thread takes the oldest queued work item (at most `workers` threads)
\* and calls _query_range, which issues the query (lines 29-31).
WorkerStart(f) ==
    /\ pc \in {"collect", "shutdown"}
    /\ fut[f].st = "queued"
    /\ \A g \in 1..(f - 1) : fut[g].st # "queued"
    /\ Cardinality(Running) < workers
    /\ fut' = [fut EXCEPT ![f].st = "running"]
    /\ queries' = Append(queries, f)
    /\ UNCHANGED <<bvars, pc, workers, file, opened, wrote_header, k, df, replies,
                   results, j, skips, exc, err>>

\* _query_range, lines 31-35: what the future of window i ends with
QueryRangeNoCheck(i, o) ==
    IF o.exc # NoExc THEN [st |-> "done", res |-> <<>>, exc |-> o.exc]
    ELSE [st |-> "done", res |-> SortValues(o.tab), exc |-> NoExc]

QueryRange(i, o) ==
    IF o.exc # NoExc THEN [st |-> "done", res |-> <<>>, exc |-> o.exc]
    ELSE IF o.tab = <<>> THEN [st |-> "done", res |-> <<>>, exc |-> EmptyResult(i)]
    ELSE [st |-> "done", res |-> SortValues(o.tab), exc |-> NoExc]

WorkerFinish(f) ==
    /\ pc \in {"collect", "shutdown"}
    /\ fut[f].st = "running"
    /\ \E o \in Outcomes(f) :
         /\ fut' = [fut EXCEPT ![f] = QueryRange(f, o)]
         /\ replies' = [replies EXCEPT ![f] = Kind(o)]
    /\ UNCHANGED <<bvars, pc, workers, file, opened, wrote_header, k, df, queries,
                   results, j, skips, exc, err>>

\* lines 80-82: as_completed hands over a finished future; fut.result() returns
\* its table, stored in slot fut_to_idx[fut], or raises its exception, which
\* leaves the loop
CollectSwallow(f) ==
    /\ pc = "collect"
    /\ fut[f].st = "done"
    /\ fut' = [fut EXCEPT ![f].st = "collected"]
    /\ results' = IF fut[f].exc # NoExc THEN results
                  ELSE [results EXCEPT ![FutToIdx(f)] = fut[f].res]
    /\ UNCHANGED <<bvars, pc, workers, file, opened, wrote_header, k, df, queries,
                   replies, j, skips, exc, err>>

Collect(f) ==
    /\ pc = "collect"
    /\ fut[f].st = "done"
    /\ fut' = [fut EXCEPT ![f].st = "collected"]
    /\ IF fut[f].exc # NoExc
       THEN /\ exc' = fut[f].exc
            /\ pc' = "shutdown"
            /\ results' = results
       ELSE /\ results' = [results EXCEPT ![FutToIdx(f)] = fut[f].res]
            /\ UNCHANGED <<exc, pc>>
    /\ UNCHANGED <<bvars, workers, file, opened, wrote_header, k, df, queries, replies,
                   j, skips, err>>

\* line 76, leaving the with block on an exception: shutdown(wait=True) returns
\* once every submitted future has run, then the exception goes on to the handler
ShutdownNoWait ==
    /\ pc = "shutdown"
    /\ pc' = "except"
    /\ UNCHANGED <<bvars, run_vars>>

Shutdown ==
    /\ pc = "shutdown"
    /\ Finished = DOMAIN fut
    /\ pc' = "except"
    /\ UNCHANGED <<bvars, run_vars>>

\* lines 80 and 83: every future was handed over, the file is opened
ParOpen ==
    /\ pc = "collect"
    /\ \A f \in DOMAIN fut : fut[f].st = "collected"
    /\ file' = OpenW
    /\ opened' = TRUE
    /\ j' = 1
    /\ pc' = "write"
    /\ UNCHANGED <<bvars, workers, wrote_header, k, df, queries, replies, fut, results,
                   skips, exc, err>>

\* lines 84-88: slot j is skipped when None or empty, else appended
ParWrite ==
    /\ pc = "write"
    /\ j <= Len(results)
    /\ IF results[j] = None \/ results[j] = <<>>
       THEN /\ skips' = skips + 1
            /\ UNCHANGED <<file, wrote_header>>
       ELSE /\ file' = [file EXCEPT !.lines = @ \o ToCsv(results[j], ~wrote_header)]
            /\ wrote_header' = TRUE
            /\ skips' = skips
    /\ j' = j + 1
    /\ UNCHANGED <<bvars, pc, workers, opened, k, df, queries, replies, fut, results,
                   exc, err>>

\* line 84 exhausted: the file is closed and the call returns
ParReturn ==
    /\ pc = "write"
    /\ j > Len(results)
    /\ pc' = "returned"
    /\ UNCHANGED <<bvars, run_vars>>

\* "now" (line 57) and the arguments: an end on the chunk grid and one off it
NowDays == {StartDay, StartDay + 7}
NowDates == {e \in {MkTs(mi, d) : mi \in StartMonth..(StartMonth + MaxNowMonths),
                                  d \in NowDays} : e > StartDate}

Init ==
    \E e \in NowDates : \E m \in 0..MaxRunChunk : \E w \in 0..MaxWorkers :
      \E f0 \in InitialFiles :
        BuildEntry(StartDate, e, m) /\ RunIdle(w, f0)

Next ==
    \/ BuildLoop
    \/ BuildReturn
    \/ SeqOpen
    \/ SeqQuery
    \/ SeqCheck
    \/ SeqWrite
    \/ SeqReturn
    \/ ParSubmit
    \/ \E f \in DOMAIN fut : WorkerStart(f)
    \/ \E f \in DOMAIN fut : WorkerFinish(f)
    \/ \E f \in DOMAIN fut : Collect(f)
    \/ Shutdown
    \/ Handler
    \/ ParOpen
    \/ ParWrite
    \/ ParReturn

Spec == Init /\ [][Next]_vars

\* ------------------------------------------------- partitioner properties
Returned == pc = "built"
PositiveCase == start_date < end_date /\ months_per_chunk > 0
WStart(w) == w[1]
WEnd(w) == w[2]
Last(s) == s[Len(s)]

\* The cap MaxRanges never cuts a loop that would end by itself.
CapNotBinding == (pc = "build" /\ months_per_chunk > 0) => Len(ranges) < MaxRanges

\* C1: for start < end and a positive chunk size the returned list is
\* non-empty, starts at start, ends at end, every window is non-empty, each
\* window ends where the next starts and the window starts strictly increase.
C1_Partition ==
    (Returned /\ PositiveCase) =>
        /\ time_ranges # <<>>
        /\ WStart(time_ranges[1]) = start_date
        /\ WEnd(Last(time_ranges)) = end_date
        /\ \A i \in 1..Len(time_ranges) : WStart(time_ranges[i]) < WEnd(time_ranges[i])
        /\ \A i \in 1..(Len(time_ranges) - 1) :
              /\ WEnd(time_ranges[i]) = WStart(time_ranges[i + 1])
              /\ WStart(time_ranges[i]) < WStart(time_ranges[i + 1])

\* three windows or more, the last one cut short by end
C1_Witness ==
    /\ Returned /\ PositiveCase /\ Len(time_ranges) >= 3
    /\ WEnd(Last(time_ranges)) < AddMonths(WStart(Last(time_ranges)), months_per_chunk)

Span25 == Returned /\ months_per_chunk = 12 /\ end_date = AddMonths(start_date, 25)

\* C2: with a positive chunk size every window but the last spans exactly the
\* chunk size and the last one at most the chunk size; a span of at most one
\* chunk gives the single window (start, end); a span of 25 months with
\* chunk = 12 gives three windows, the last one being the 25th month of the span.
C2_ChunkSized ==
    /\ (Returned /\ PositiveCase) =>
          /\ \A i \in 1..(Len(time_ranges) - 1) :
                WEnd(time_ranges[i]) = AddMonths(WStart(time_ranges[i]), months_per_chunk)
          /\ WEnd(Last(time_ranges))
                <= AddMonths(WStart(Last(time_ranges)), months_per_chunk)
          /\ (end_date <= AddMonths(start_date, months_per_chunk)
                 => time_ranges = << <<start_date, end_date>> >>)
    /\ Span25 =>
          /\ Len(time_ranges) = 3
          /\ Last(time_ranges) = <<AddMonths(start_date, 24), AddMonths(start_date, 25)>>

\* the 25-month scenario from a start on the last day of a month
C2_Witness == Span25 /\ DayOf(start_date) >= 28 /\ Len(time_ranges) = 3

\* C3: the partitioner always terminates: every iteration of the loop moves the
\* window start strictly forward, and no iteration is made with a non-positive
\* chunk size (that case ends in an error).
C3_AlwaysAdvances ==
    [][(Len(ranges') > Len(ranges)) => (months_per_chunk > 0 /\ cur < cur')]_vars

\* ------------------------------------------------- run properties
Sequential == workers <= 1
Parallel == workers > 1
InRun == pc \notin {"build", "built"}
Failing == {f \in DOMAIN fut : fut[f].exc # NoExc}
Rows(i) == <<Row(i, 1), Row(i, 2)>>

RECURSIVE Chunks(_)
Chunks(n) == IF n = 0 THEN <<>> ELSE Chunks(n - 1) \o Rows(n)

\* the file holding the sorted chunks of windows 1..n under one header
FileOf(n) == IF n = 0 THEN <<>> ELSE <<Header>> \o Chunks(n)

RowLines == SelectSeq(file.lines, LAMBDA l : l.kind = "row")
HeaderLines == SelectSeq(file.lines, LAMBDA l : l.kind = "header")

\* Slot i holds the table of future i once that future was collected, and
\* None until then; the rows of the file are in (window, T_START) order.
C4_SlotsInv ==
    /\ (Parallel /\ InRun) =>
          \A i \in DOMAIN results :
             IF fut[i].st = "collected" /\ fut[i].exc = NoExc
             THEN /\ results[i] = fut[i].res
                  /\ results[i] # <<>>
                  /\ \A n \in DOMAIN results[i] : results[i][n].win = i
             ELSE results[i] = None
    /\ opened =>
          \A a, b \in DOMAIN RowLines :
             a < b => \/ RowLines[a].win < RowLines[b].win
                      \/ RowLines[a].win = RowLines[b].win /\ RowLines[a].t <= RowLines[b].t

\* C4: the result of the query for window i is stored in slot i and in no
\* other slot, a filled slot is never assigned again, and in both strategies
\* the rows in the file are in window order (and in T_START order inside a
\* window), whatever the order in which the queries complete.
C4_Order ==
    /\ []C4_SlotsInv
    /\ [][\A i \in DOMAIN results :
             (i \in DOMAIN results' /\ results[i] # None) => results'[i] = results[i]]_vars

\* window 3 was collected before windows 1 and 2
C4_Witness ==
    /\ Parallel /\ pc = "collect" /\ Len(results) >= 3
    /\ results[3] # None /\ results[1] = None /\ results[2] = None

\* The opened file is empty with wrote_header false, or starts with its only
\* header line, followed by rows, with wrote_header true.
C5_HeaderInv ==
    opened =>
       /\ wrote_header <=> file.lines # <<>>
       /\ file.lines # <<>> =>
             /\ file.lines[1] = Header
             /\ Len(HeaderLines) = 1
             /\ RowLines # <<>>

\* C5: once a chunk has been written the file holds exactly one header line,
\* as its first line, written with the first chunk; wrote_header is true
\* exactly from that first write on and never goes back to false.
C5_HeaderOnce ==
    /\ []C5_HeaderInv
    /\ [][wrote_header => wrote_header']_vars

\* a second chunk has been appended
C5_Witness ==
    /\ opened /\ wrote_header
    /\ \E a, b \in DOMAIN RowLines : RowLines[a].win # RowLines[b].win

\* C6: if the query of a window raises, the call never returns normally; it
\* raises one OSError whose cause is the exception of a failing window.
C6_Propagates ==
    /\ (\E i \in DOMAIN replies : replies[i] = "raised") =>
          pc \in {"collect", "shutdown", "except", "raised"}
    /\ pc = "raised" =>
          /\ err.type = "OSError"
          /\ err.cause # NoExc
          /\ err.cause.win \in DOMAIN replies
          /\ replies[err.cause.win] \in {"raised", "empty"}
          /\ replies[err.cause.win] = "raised" =>
                err.cause \in {Retrieval(ty, err.cause.win) : ty \in RemoteErrors}
          /\ Parallel => fut[err.cause.win].exc = err.cause
          /\ Sequential => err.cause.win = Last(queries)

\* workers = 4, the query of window 3 raised, the others returned rows
C6_Witness ==
    /\ workers = 4 /\ pc = "raised" /\ Len(replies) >= 4
    /\ err.cause.win = 3 /\ replies[3] = "raised"
    /\ \A i \in DOMAIN replies : i # 3 => replies[i] = "rows"

\* C7: a query that returns zero rows makes the run fail, with an error whose
\* cause (a ValueError saying "No data returned") differs from the cause of
\* the error raised when the remote call raises, so that the caller can tell
\* the two apart.
C7_EmptyDistinct ==
    /\ (\E i \in DOMAIN replies : replies[i] = "empty") =>
          pc \in {"seq_check", "collect", "shutdown", "except", "raised"}
    /\ pc = "raised" =>
          /\ err.type = "OSError"
          /\ replies[err.cause.win] = "empty" =>
                err.cause.type = "ValueError" /\ err.cause.msg = "No data returned"
          /\ replies[err.cause.win] = "raised" => err.cause.msg # "No data returned"

\* a run failed on an empty table while another window's query had raised a
\* ValueError of its own
C7_Witness ==
    /\ pc = "raised" /\ replies[err.cause.win] = "empty"
    /\ \E i \in DOMAIN fut : fut[i].exc = Retrieval("ValueError", i)

\* C8: in the parallel strategy the file is opened only after every query has
\* completed and its result was collected; when a query fails the file is
\* never opened, created, truncated or written, and the error is raised only
\* after every submitted query has finished.
C8_OpenAfterAll ==
    (Parallel /\ InRun) =>
       /\ opened => \A f \in DOMAIN fut : fut[f].st = "collected" /\ results[f] # None
       /\ ~opened => file \in InitialFiles
       /\ (Failing # {} \/ exc # NoExc) => ~opened
       /\ pc \in {"except", "raised"} => Finished = DOMAIN fut
       /\ pc = "raised" => Failing # {}

\* the error was raised while a stale file was there and other queries succeeded
C8_Witness ==
    /\ Parallel /\ pc = "raised" /\ Len(results) >= 3
    /\ file = [exists |-> TRUE, lines |-> <<StaleLine>>]
    /\ \E f \in DOMAIN fut : fut[f].exc = NoExc /\ fut[f].st = "done"

\* C9: in the sequential strategy the queries are issued one at a time in
\* window order and chunk k is sorted and written before query k+1 is issued;
\* when the query of window k fails no later query is issued and the file
\* holds exactly the chunks of the windows before k, with a header iff there
\* is one.
C9_Stepwise ==
    (Sequential /\ InRun) =>
       /\ queries = [i \in 1..Len(queries) |-> i]
       /\ Len(queries) = IF pc \in {"seq_query", "returned"} THEN k - 1 ELSE k
       /\ file = [exists |-> TRUE, lines |-> FileOf(k - 1)]
       /\ wrote_header <=> k > 1
       /\ pc \in {"except", "raised"} =>
             /\ exc.win = k
             /\ replies[k] \in {"raised", "empty"}
             /\ \A i \in DOMAIN replies : i > k => replies[i] = "none"

\* the query of the third window failed after two chunks were written
C9_Witness ==
    /\ Sequential /\ pc = "raised" /\ k = 3 /\ Len(time_ranges) >= 4
    /\ file.lines = FileOf(2)

\* C10: when the call returns normally the file holds exactly one non-empty
\* chunk per window, in order; in the parallel strategy every slot holds a
\* non-empty table when the write phase begins and line 86 never skips.
C10_NoSkip ==
    /\ skips = 0
    /\ pc = "write" => \A i \in DOMAIN results : results[i] # None /\ results[i] # <<>>
    /\ pc = "returned" =>
          /\ file = [exists |-> TRUE, lines |-> FileOf(NWin)]
          /\ \A i \in DOMAIN replies : replies[i] = "rows"
          /\ Len(queries) = NWin

\* a parallel run over three windows or more returned
C10_Witness == Parallel /\ pc = "returned" /\ NWin >= 3 /\ file.lines = FileOf(NWin)
====
